---- MODULE Spec2Model ----
(***************************************************************************)
(* Terminal key input and list pickers of TubeToonie.                      *)
(*                                                                         *)
(*   ytaudio_tui_keys.py    parse_ansi_escape_sequence, _raw_mode_unix,    *)
(*                          _read_after_escape_unix, read_key              *)
(*   ytaudio_tui_select.py  select_one, select_many                        *)
(*                                                                         *)
(* Characters are one-character strings; a Python str is a sequence of     *)
(* them.  A raised exception is the value of the operation, named after    *)
(* the Python exception ("IndexError", ...).                               *)
(***************************************************************************)
EXTENDS Integers, Sequences, FiniteSets, TLC

VARIABLES
    seq,          \* classifier: the argument of parse_ansi_escape_sequence
    result,       \* classifier: its return value, "none" before the call
    termMode,     \* terminal: the attributes in force on stdin's descriptor
    isatty,       \* terminal: whether stdin's descriptor is a terminal
    origMode,     \* history: the attributes in force before any read_key call
    hup,          \* stream: the other end has closed it (end of input)
    fdq,          \* stream: bytes that arrived on the descriptor, unread
    pybuf,        \* stream: bytes sys.stdin has read ahead into its buffer
    typed,        \* stream: how many bytes have arrived so far
    rkpc,         \* read_key: the statement the call is at
    old_settings, \* _raw_mode_unix: the attributes tcgetattr returned
    ch1,          \* read_key: the first character read
    buf,          \* _read_after_escape_unix: "".join(buf)
    appends,      \* _read_after_escape_unix: how many buf.append calls ran
    key,          \* read_key: the value returned, "none" before the return
    exc,          \* read_key: the exception propagating, "none" without one
    excAt,        \* history: the statement that raised exc
    modeBefore,   \* history: termMode when the call started
    afterTimeout, \* history: the call before this one returned "esc" because
                  \*          nothing had arrived when the first wait ended
    restores,     \* history: tcsetattr(old_settings) calls of this call
    availFirst,   \* history: a follow-on byte had arrived when the first wait ended
    availAtStop,  \* history: a follow-on byte had arrived when draining stopped
    ppc,          \* picker: the statement select_one / select_many is at
    picker,       \* picker: "one" for select_one, "many" for select_many
    opts,         \* picker: list(options)
    default_index,  \* select_one: the default_index argument
    selected_index, \* picker: the cursor
    picked,       \* select_many: the set of toggled indices (0-based)
    ret,          \* picker: the value returned
    reads,        \* history: read_key calls the picker made
    renders,      \* history: panels the picker rendered
    panel,        \* picker: the cursor and marks of the last panel rendered
    moves,        \* history: "down" keys minus "up" keys the picker has read
    args,         \* function call: the arguments, "none" when none is modelled
    world,        \* function call: what it reads from outside its arguments
    outcome       \* function call: the value returned or the exception raised

streamVars == <<hup, fdq, pybuf, typed>>
callVars == <<rkpc, old_settings, ch1, buf, appends, key, exc, excAt,
              modeBefore, afterTimeout, restores, availFirst, availAtStop>>
keyVars == <<termMode, isatty, origMode, streamVars, callVars>>
readerVars == <<termMode, isatty, origMode, streamVars, rkpc, old_settings, ch1, buf,
                appends, exc, excAt, modeBefore, afterTimeout, restores, availFirst,
                availAtStop>>
parseVars == <<seq, result>>
pureVars == <<args, world, outcome>>
pickVars == <<ppc, picker, opts, default_index, selected_index, picked, ret,
              reads, renders, panel, moves>>
vars == <<parseVars, pureVars, keyVars, pickVars>>

(***************************************************************************)
(* Bounds                                                                  *)
(***************************************************************************)
\* longest classifier input drawn from the full alphabet
MaxSeqLen == 3
\* how many bytes the terminal delivers in one behaviour
MaxTyped == 3
\* longest option list given to a picker
MaxOpts == 3
\* how many unread bytes a flooding terminal keeps waiting on the descriptor
MaxBacklog == 2
\* how many keys a picker reads in one behaviour
MaxKeys == 5

(***************************************************************************)
(* ytaudio_tui_keys.py : the escape classifier                             *)
(***************************************************************************)
\* max_bytes, the cap on the bytes read after ESC
max_bytes == 8

ESC == "\\x1b"
CR == "\\r"
LF == "\\n"
SPC == " "
DEL == "\\x7f"

\* the key names read_key and parse_ansi_escape_sequence return
Directions == {"up", "down", "left", "right"}
ClassifierKeys == Directions \cup {"esc", "other"}

\* characters a classifier input is drawn from
Alphabet == {"[", "O", "A", "B", "C", "D", "Z", "?", "1", ";", "5", "X"}
\* characters of the long (up to max_bytes) classifier inputs
LongAlphabet == {"[", "A", "1"}

ARROW_MAP_swapped == [A |-> "up", B |-> "down", C |-> "left", D |-> "right"]
ARROW_MAP == [A |-> "up", B |-> "down", C |-> "right", D |-> "left"]

\* dict.get(key, default) on _ARROW_MAP
ArrowGet(ch, default) == IF ch \in DOMAIN ARROW_MAP THEN ARROW_MAP[ch] ELSE default

\* Python s[i] for i in {0, -1}: IndexError on the empty string
PyFirst(s) == IF Len(s) = 0 THEN "IndexError" ELSE s[1]
PyLast(s) == IF Len(s) = 0 THEN "IndexError" ELSE s[Len(s)]

\* mutants of parse_ansi_escape_sequence
parse_unknown_is_esc(s) ==
    IF Len(s) = 0 THEN "esc"
    ELSE IF PyFirst(s) \notin {"[", "O"} THEN "esc"
    ELSE ArrowGet(PyLast(s), "esc")

parse_no_introducer_check(s) ==
    IF Len(s) = 0 THEN "esc"
    ELSE ArrowGet(PyLast(s), "other")

parse_second_char(s) ==
    IF Len(s) = 0 THEN "esc"
    ELSE IF PyFirst(s) \notin {"[", "O"} THEN "other"
    ELSE IF Len(s) < 2 THEN "IndexError"
    ELSE ArrowGet(s[2], "other")

parse_no_empty_check(s) ==
    IF PyFirst(s) = "IndexError" THEN "IndexError"
    ELSE IF PyFirst(s) \notin {"[", "O"} THEN "other"
    ELSE ArrowGet(PyLast(s), "other")

parse_ansi_escape_sequence(s) ==
    IF Len(s) = 0 THEN "esc"
    ELSE IF PyFirst(s) \notin {"[", "O"} THEN "other"
    ELSE ArrowGet(PyLast(s), "other")

RECURSIVE SeqsOfLen(_, _)
SeqsOfLen(chars, n) ==
    IF n = 0 THEN {<<>>}
    ELSE {Append(s, c) : s \in SeqsOfLen(chars, n - 1), c \in chars}

SeqsUpTo(chars, n) == UNION {SeqsOfLen(chars, k) : k \in 0..n}

\* inputs of the classifier check: every string up to MaxSeqLen, the strings
\* up to the cap over a small alphabet, and the strings the tests name
InputSeqs ==
    SeqsUpTo(Alphabet, MaxSeqLen) \cup SeqsUpTo(LongAlphabet, max_bytes)
        \cup {<<"[", "1", ";", "5", "A">>, <<"O", "1", ";", "5", "B">>}

\* no picker running
PickerIdle ==
    /\ ppc = "none"
    /\ picker = "none"
    /\ opts = <<>>
    /\ default_index = 0
    /\ selected_index = 0
    /\ picked = {}
    /\ ret = [kind |-> "pending"]
    /\ reads = 0
    /\ renders = 0
    /\ panel = [kind |-> "blank"]
    /\ moves = 0

\* no function call modelled
PureIdle ==
    /\ args = "none"
    /\ world = "none"
    /\ outcome = "none"

\* the stream before anything is typed
StreamIdle ==
    /\ hup = FALSE
    /\ fdq = <<>>
    /\ pybuf = <<>>
    /\ typed = 0

\* no read_key call made yet
CallIdle ==
    /\ rkpc = "idle"
    /\ old_settings = "none"
    /\ ch1 = "none"
    /\ buf = <<>>
    /\ appends = 0
    /\ key = "none"
    /\ exc = "none"
    /\ excAt = "none"
    /\ modeBefore = "none"
    /\ afterTimeout = FALSE
    /\ restores = 0
    /\ availFirst = FALSE
    /\ availAtStop = FALSE

\* the key reader at rest on a cooked terminal
KeyReaderIdle ==
    /\ termMode = "cooked"
    /\ origMode = "cooked"
    /\ isatty = TRUE
    /\ StreamIdle
    /\ CallIdle

InitParse ==
    /\ seq \in InputSeqs
    /\ result = "none"
    /\ KeyReaderIdle
    /\ PickerIdle
    /\ PureIdle

\* one call of parse_ansi_escape_sequence(seq)
Classify ==
    /\ result = "none"
    /\ result' = parse_ansi_escape_sequence(seq)
    /\ UNCHANGED <<seq, pureVars, keyVars, pickVars>>

NextParse == Classify

SpecParse == InitParse /\ [][NextParse]_vars

(***************************************************************************)
(* ytaudio_tui_keys.py : read_key on the raw-stream (POSIX) variant        *)
(*                                                                         *)
(* sys.stdin is a buffered text stream: read(1) on an empty buffer reads   *)
(* every byte waiting on the descriptor into the buffer and returns the    *)
(* first, while select.select([sys.stdin], ...) polls the descriptor only. *)
(* A byte that arrives while a wait is pending arrives before the wait     *)
(* ends (Arrive before the select step); a byte that arrives later         *)
(* arrives after it.  tcsetattr in the finally clause is taken to          *)
(* complete.                                                               *)
(***************************************************************************)
\* the bytes the terminal delivers
Bytes == {CR, LF, SPC, DEL, ESC, "[", "A", "x"}

\* terminal attributes a caller may have in force before read_key
InitialModes == {"cooked", "cbreak", "raw"}

\* the keys read_key returns on this variant
PosixKeys == ClassifierKeys \cup {"eof", "enter", "space", "backspace"}

\* mutant: restore only when the body returns (no try/finally)
AfterBody_no_finally(e) == IF e = "none" THEN "finally" ELSE "done"

\* _raw_mode_unix: the body of the with statement always leaves through the
\* finally clause, whether it returned (e = "none") or raised e
AfterBody(e) == "finally"

\* mutant: backspace recognised by the console variant's byte
KeyOfFirstChar_backspace_x08(ch) ==
    IF ch = "" THEN "eof"
    ELSE IF ch \in {CR, LF} THEN "enter"
    ELSE IF ch = SPC THEN "space"
    ELSE IF ch \in {"\\x08"} THEN "backspace"
    ELSE IF ch = ESC THEN "escape_sequence"
    ELSE "other"

\* mutant: a direction letter read first is taken as the end of an arrow
\* sequence begun by an earlier call
KeyOfFirstChar_late_letter_is_arrow(ch) ==
    IF ch = "" THEN "eof"
    ELSE IF ch \in {CR, LF} THEN "enter"
    ELSE IF ch = SPC THEN "space"
    ELSE IF ch \in {DEL} THEN "backspace"
    ELSE IF ch = ESC THEN "escape_sequence"
    ELSE IF ch \in DOMAIN ARROW_MAP THEN ARROW_MAP[ch]
    ELSE "other"

\* read_key's chain of tests on ch1; "escape_sequence" stands for the branch
\* that goes on to _read_after_escape_unix
KeyOfFirstChar(ch) ==
    IF ch = "" THEN "eof"
    ELSE IF ch \in {CR, LF} THEN "enter"
    ELSE IF ch = SPC THEN "space"
    ELSE IF ch \in {DEL} THEN "backspace"
    ELSE IF ch = ESC THEN "escape_sequence"
    ELSE "other"

\* sys.stdin.read(1) returns without blocking: from the buffer, from the
\* descriptor, or "" at end of input
CanRead == pybuf # <<>> \/ fdq # <<>> \/ hup

\* the character sys.stdin.read(1) returns
StdinChar ==
    IF pybuf # <<>> THEN Head(pybuf)
    ELSE IF fdq # <<>> THEN Head(fdq)
    ELSE ""

\* the effect of sys.stdin.read(1) on the buffer and the descriptor
StdinTake ==
    /\ pybuf' = (IF pybuf # <<>> THEN Tail(pybuf)
                 ELSE IF fdq # <<>> THEN Tail(fdq)
                 ELSE <<>>)
    /\ fdq' = (IF pybuf # <<>> THEN fdq ELSE <<>>)
    /\ UNCHANGED <<hup, typed>>

\* select.select([sys.stdin], [], [], timeout) reports stdin readable: bytes
\* wait on the descriptor, or it is at end of input
SelectReady == fdq # <<>> \/ hup

\* statements inside the try block of _raw_mode_unix
BodyStatements ==
    {"setraw", "read1", "select_first", "read_first", "select_next", "read_next"}

\* the terminal delivers one byte
Arrive(c) ==
    /\ typed < MaxTyped
    /\ ~hup
    /\ fdq' = Append(fdq, c)
    /\ typed' = typed + 1
    /\ UNCHANGED <<hup, pybuf, termMode, isatty, origMode, callVars, parseVars, pureVars, pickVars>>

\* the other end of the stream closes
Hangup ==
    /\ ~hup
    /\ hup' = TRUE
    /\ UNCHANGED <<fdq, pybuf, typed, termMode, isatty, origMode, callVars, parseVars, pureVars, pickVars>>

\* read_key() is entered; afterTimeout records how the call before it ended
EnterReadKey ==
    /\ rkpc \in {"idle", "done"}
    /\ rkpc' = "tcgetattr"
    /\ old_settings' = "none"
    /\ ch1' = "none"
    /\ buf' = <<>>
    /\ appends' = 0
    /\ key' = "none"
    /\ exc' = "none"
    /\ excAt' = "none"
    /\ modeBefore' = termMode
    /\ afterTimeout' = (rkpc = "done" /\ exc = "none" /\ key = "esc"
                           /\ appends = 0 /\ ~availFirst)
    /\ restores' = 0
    /\ availFirst' = FALSE
    /\ availAtStop' = FALSE
    /\ UNCHANGED <<termMode, isatty, origMode, streamVars, parseVars, pureVars>>

\* a caller calls read_key()
Call ==
    /\ EnterReadKey
    /\ UNCHANGED pickVars

\* old_settings = termios.tcgetattr(fd)
TcGetAttr ==
    /\ rkpc = "tcgetattr"
    /\ isatty
    /\ old_settings' = termMode
    /\ rkpc' = "setraw"
    /\ UNCHANGED <<ch1, buf, appends, key, exc, excAt, modeBefore, afterTimeout, restores,
                   availFirst, availAtStop>>
    /\ UNCHANGED <<termMode, isatty, origMode, streamVars, parseVars, pureVars, pickVars>>

\* mutant: the failure is caught and reported as end of input
TcGetAttrFails_returns_eof ==
    /\ rkpc = "tcgetattr"
    /\ ~isatty \/ hup
    /\ key' = "eof"
    /\ rkpc' = "done"
    /\ UNCHANGED <<old_settings, ch1, buf, appends, exc, excAt, modeBefore, afterTimeout,
                   restores, availFirst, availAtStop>>
    /\ UNCHANGED <<termMode, isatty, origMode, streamVars, parseVars, pureVars, pickVars>>

\* termios.tcgetattr(fd) raises termios.error: no terminal, or hung up
TcGetAttrFails ==
    /\ rkpc = "tcgetattr"
    /\ ~isatty \/ hup
    /\ exc' = "termios.error"
    /\ excAt' = "tcgetattr"
    /\ rkpc' = "done"
    /\ UNCHANGED <<old_settings, ch1, buf, appends, key, modeBefore, afterTimeout, restores,
                   availFirst, availAtStop>>
    /\ UNCHANGED <<termMode, isatty, origMode, streamVars, parseVars, pureVars, pickVars>>

\* tty.setraw(fd): tcsetattr(fd, TCSAFLUSH, raw) discards the unread input
SetRaw ==
    /\ rkpc = "setraw"
    /\ termMode' = "raw"
    /\ fdq' = <<>>
    /\ rkpc' = "read1"
    /\ UNCHANGED <<old_settings, ch1, buf, appends, key, exc, excAt,
                   modeBefore, afterTimeout, restores, availFirst, availAtStop>>
    /\ UNCHANGED <<isatty, origMode, hup, pybuf, typed, parseVars, pureVars, pickVars>>

\* ch1 = sys.stdin.read(1), then the chain of tests on ch1
ReadCh1 ==
    /\ rkpc = "read1"
    /\ CanRead
    /\ ch1' = StdinChar
    /\ StdinTake
    /\ IF KeyOfFirstChar(StdinChar) = "escape_sequence"
       THEN rkpc' = "select_first" /\ key' = key
       ELSE rkpc' = AfterBody("none") /\ key' = KeyOfFirstChar(StdinChar)
    /\ UNCHANGED <<old_settings, buf, appends, exc, excAt, modeBefore, afterTimeout,
                   restores, availFirst, availAtStop>>
    /\ UNCHANGED <<termMode, isatty, origMode, parseVars, pureVars, pickVars>>

\* sys.stdin.read(1) raises OSError: the stream was hung up
ReadFails ==
    /\ rkpc \in {"read1", "read_first", "read_next"}
    /\ pybuf = <<>> /\ fdq = <<>> /\ hup
    /\ exc' = "OSError"
    /\ excAt' = rkpc
    /\ rkpc' = AfterBody("OSError")
    /\ UNCHANGED <<old_settings, ch1, buf, appends, key, modeBefore, afterTimeout, restores,
                   availFirst, availAtStop>>
    /\ UNCHANGED <<termMode, isatty, origMode, streamVars, parseVars, pureVars, pickVars>>

\* _read_after_escape_unix returns "".join(buf); read_key returns
\* parse_ansi_escape_sequence(seq)
ReturnSequence ==
    /\ key' = parse_ansi_escape_sequence(buf)
    /\ rkpc' = AfterBody("none")

\* select.select([sys.stdin], [], [], first_timeout_s)
SelectFirst ==
    /\ rkpc = "select_first"
    /\ availFirst' = (pybuf # <<>> \/ fdq # <<>>)
    /\ IF SelectReady
       THEN rkpc' = "read_first" /\ key' = key
       ELSE ReturnSequence
    /\ UNCHANGED <<old_settings, ch1, buf, appends, exc, excAt, modeBefore, afterTimeout,
                   restores, availAtStop>>
    /\ UNCHANGED <<termMode, isatty, origMode, streamVars, parseVars, pureVars, pickVars>>

\* mutant: a read that returns no data still adds an element to the sequence
ReadAfterEscape_keeps_empty ==
    /\ rkpc \in {"read_first", "read_next"}
    /\ CanRead
    /\ buf' = Append(buf, StdinChar)
    /\ appends' = appends + 1
    /\ StdinTake
    /\ rkpc' = "select_next"
    /\ UNCHANGED <<old_settings, ch1, key, exc, excAt, modeBefore, afterTimeout, restores,
                   availFirst, availAtStop>>
    /\ UNCHANGED <<termMode, isatty, origMode, parseVars, pureVars, pickVars>>

\* buf.append(sys.stdin.read(1)), after either select
ReadAfterEscape ==
    /\ rkpc \in {"read_first", "read_next"}
    /\ CanRead
    /\ buf' = (IF StdinChar = "" THEN buf ELSE Append(buf, StdinChar))
    /\ appends' = appends + 1
    /\ StdinTake
    /\ rkpc' = "select_next"
    /\ UNCHANGED <<old_settings, ch1, key, exc, excAt, modeBefore, afterTimeout, restores,
                   availFirst, availAtStop>>
    /\ UNCHANGED <<termMode, isatty, origMode, parseVars, pureVars, pickVars>>

\* mutant: the drain loop is a while True without the max_bytes cap
SelectNextReady_uncapped ==
    /\ rkpc = "select_next"
    /\ SelectReady
    /\ rkpc' = "read_next"
    /\ UNCHANGED <<old_settings, ch1, buf, appends, key, exc, excAt,
                   modeBefore, afterTimeout, restores, availFirst, availAtStop>>
    /\ UNCHANGED <<termMode, isatty, origMode, streamVars, parseVars, pureVars, pickVars>>

\* for _ in range(max_bytes - 1): select.select(..., next_timeout_s) reports
\* stdin readable
SelectNextReady ==
    /\ rkpc = "select_next"
    /\ appends < max_bytes
    /\ SelectReady
    /\ rkpc' = "read_next"
    /\ UNCHANGED <<old_settings, ch1, buf, appends, key, exc, excAt,
                   modeBefore, afterTimeout, restores, availFirst, availAtStop>>
    /\ UNCHANGED <<termMode, isatty, origMode, streamVars, parseVars, pureVars, pickVars>>

\* if not rlist2: break
SelectNextTimeout ==
    /\ rkpc = "select_next"
    /\ appends < max_bytes
    /\ ~SelectReady
    /\ availAtStop' = (pybuf # <<>>)
    /\ ReturnSequence
    /\ UNCHANGED <<old_settings, ch1, buf, appends, exc, excAt, modeBefore, afterTimeout,
                   restores, availFirst>>
    /\ UNCHANGED <<termMode, isatty, origMode, streamVars, parseVars, pureVars, pickVars>>

\* the for loop ends: max_bytes characters were appended
DrainCapReached ==
    /\ rkpc = "select_next"
    /\ appends >= max_bytes
    /\ ReturnSequence
    /\ UNCHANGED <<old_settings, ch1, buf, appends, exc, excAt, modeBefore, afterTimeout,
                   restores, availFirst, availAtStop>>
    /\ UNCHANGED <<termMode, isatty, origMode, streamVars, parseVars, pureVars, pickVars>>

\* KeyboardInterrupt before the try block is entered
InterruptBeforeTry ==
    /\ rkpc = "tcgetattr"
    /\ exc' = "KeyboardInterrupt"
    /\ excAt' = rkpc
    /\ rkpc' = "done"
    /\ UNCHANGED <<old_settings, ch1, buf, appends, key, modeBefore, afterTimeout, restores,
                   availFirst, availAtStop>>
    /\ UNCHANGED <<termMode, isatty, origMode, streamVars, parseVars, pureVars, pickVars>>

\* KeyboardInterrupt inside the try block; during tty.setraw the raw
\* attributes have been applied or not
InterruptInBody ==
    /\ rkpc \in BodyStatements
    /\ exc' = "KeyboardInterrupt"
    /\ excAt' = rkpc
    /\ rkpc' = AfterBody("KeyboardInterrupt")
    /\ \/ UNCHANGED <<termMode, fdq>>
       \/ rkpc = "setraw" /\ termMode' = "raw" /\ fdq' = <<>>
    /\ UNCHANGED <<old_settings, ch1, buf, appends, key, modeBefore, afterTimeout, restores,
                   availFirst, availAtStop>>
    /\ UNCHANGED <<isatty, origMode, hup, pybuf, typed, parseVars, pureVars, pickVars>>

\* mutant: the finally clause sets cooked mode, not the saved attributes
Restore_to_cooked ==
    /\ rkpc = "finally"
    /\ termMode' = "cooked"
    /\ restores' = restores + 1
    /\ rkpc' = "done"
    /\ UNCHANGED <<old_settings, ch1, buf, appends, key, exc, excAt,
                   modeBefore, afterTimeout, availFirst, availAtStop>>
    /\ UNCHANGED <<isatty, origMode, streamVars, parseVars, pureVars, pickVars>>

\* finally: termios.tcsetattr(fd, termios.TCSADRAIN, old_settings); then
\* read_key returns key or raises exc
Restore ==
    /\ rkpc = "finally"
    /\ termMode' = old_settings
    /\ restores' = restores + 1
    /\ rkpc' = "done"
    /\ UNCHANGED <<old_settings, ch1, buf, appends, key, exc, excAt,
                   modeBefore, afterTimeout, availFirst, availAtStop>>
    /\ UNCHANGED <<isatty, origMode, streamVars, parseVars, pureVars, pickVars>>

Init ==
    /\ seq = <<>>
    /\ result = "none"
    /\ termMode \in InitialModes
    /\ origMode = termMode
    /\ isatty \in BOOLEAN
    /\ StreamIdle
    /\ CallIdle
    /\ PickerIdle
    /\ PureIdle

Next ==
    \/ \E c \in Bytes : Arrive(c)
    \/ Hangup
    \/ Call
    \/ TcGetAttr
    \/ TcGetAttrFails
    \/ SetRaw
    \/ ReadCh1
    \/ ReadFails
    \/ SelectFirst
    \/ ReadAfterEscape
    \/ SelectNextReady
    \/ SelectNextTimeout
    \/ DrainCapReached
    \/ InterruptBeforeTry
    \/ InterruptInBody
    \/ Restore

Spec == Init /\ [][Next]_vars

(***************************************************************************)
(* read_key on Windows (os.name == "nt"): msvcrt.getwch() blocks until the *)
(* console has a character and returns it; no terminal attributes are      *)
(* touched and nothing is buffered.  fdq holds the characters the console  *)
(* has waiting, ch1 is ch and buf holds code once it is read.              *)
(***************************************************************************)
\* the characters the console delivers
WinChars ==
    {CR, ESC, SPC, "\\x08", "\\x00", "\\xe0", "H", "P", "K", "M", "x"}

\* the two prefix characters announcing a key code
WinPrefixes == {"\\x00", "\\xe0"}

\* mutant: the codes of left and right are exchanged
WinCodeKey_left_right_swapped(code) ==
    IF code = "H" THEN "up"
    ELSE IF code = "P" THEN "down"
    ELSE IF code = "M" THEN "left"
    ELSE IF code = "K" THEN "right"
    ELSE "other"

\* {"H": "up", "P": "down", "K": "left", "M": "right"}.get(code, "other")
WinCodeKey(code) ==
    IF code = "H" THEN "up"
    ELSE IF code = "P" THEN "down"
    ELSE IF code = "K" THEN "left"
    ELSE IF code = "M" THEN "right"
    ELSE "other"

\* the chain of tests on ch; "prefix" stands for the branch that reads code
WinKeyOfFirstChar(ch) ==
    IF ch \in {CR, LF} THEN "enter"
    ELSE IF ch = ESC THEN "esc"
    ELSE IF ch = SPC THEN "space"
    ELSE IF ch \in {"\\x08"} THEN "backspace"
    ELSE IF ch \in WinPrefixes THEN "prefix"
    ELSE "other"

\* a caller calls read_key()
WinCall ==
    /\ rkpc \in {"idle", "done"}
    /\ rkpc' = "getwch"
    /\ ch1' = "none"
    /\ buf' = <<>>
    /\ key' = "none"
    /\ UNCHANGED <<old_settings, appends, exc, excAt, modeBefore, afterTimeout, restores,
                   availFirst, availAtStop>>
    /\ UNCHANGED <<termMode, isatty, origMode, streamVars, parseVars, pureVars, pickVars>>

\* ch = msvcrt.getwch(), then the chain of tests on ch
WinGetCh ==
    /\ rkpc = "getwch"
    /\ fdq # <<>>
    /\ ch1' = Head(fdq)
    /\ fdq' = Tail(fdq)
    /\ IF WinKeyOfFirstChar(Head(fdq)) = "prefix"
       THEN rkpc' = "getwch_code" /\ key' = key
       ELSE rkpc' = "done" /\ key' = WinKeyOfFirstChar(Head(fdq))
    /\ UNCHANGED <<old_settings, buf, appends, exc, excAt, modeBefore, afterTimeout,
                   restores, availFirst, availAtStop>>
    /\ UNCHANGED <<termMode, isatty, origMode, hup, pybuf, typed, parseVars, pureVars, pickVars>>

\* code = msvcrt.getwch(); return the key of that code
WinGetCode ==
    /\ rkpc = "getwch_code"
    /\ fdq # <<>>
    /\ buf' = <<Head(fdq)>>
    /\ fdq' = Tail(fdq)
    /\ key' = WinCodeKey(Head(fdq))
    /\ rkpc' = "done"
    /\ UNCHANGED <<old_settings, ch1, appends, exc, excAt, modeBefore, afterTimeout,
                   restores, availFirst, availAtStop>>
    /\ UNCHANGED <<termMode, isatty, origMode, hup, pybuf, typed, parseVars, pureVars, pickVars>>

InitWin ==
    /\ seq = <<>>
    /\ result = "none"
    /\ KeyReaderIdle
    /\ PickerIdle
    /\ PureIdle

NextWin ==
    \/ \E c \in WinChars : Arrive(c)
    \/ WinCall
    \/ WinGetCh
    \/ WinGetCode

SpecWin == InitWin /\ [][NextWin]_vars

(***************************************************************************)
(* read_key against a terminal that never stops sending: bytes keep        *)
(* arriving whenever fewer than MaxBacklog wait on the descriptor.         *)
(***************************************************************************)
\* the bytes a flooding terminal sends
FloodBytes == {ESC, "["}

\* the flooding terminal delivers one more byte
ArriveFlood(c) ==
    /\ Len(fdq) < MaxBacklog
    /\ fdq' = Append(fdq, c)
    /\ UNCHANGED <<hup, pybuf, typed, termMode, isatty, origMode, callVars, parseVars, pureVars, pickVars>>

InitFlood ==
    /\ seq = <<>>
    /\ result = "none"
    /\ KeyReaderIdle
    /\ PickerIdle
    /\ PureIdle

NextFlood ==
    \/ \E c \in FloodBytes : ArriveFlood(c)
    \/ Call
    \/ TcGetAttr
    \/ SetRaw
    \/ ReadCh1
    \/ SelectFirst
    \/ ReadAfterEscape
    \/ SelectNextReady
    \/ SelectNextTimeout
    \/ DrainCapReached
    \/ Restore

SpecFlood == InitFlood /\ [][NextFlood]_vars

(***************************************************************************)
(* ytaudio_tui_select.py : select_one and select_many                      *)
(*                                                                         *)
(* The pickers see read_key only through the key it returns; here each     *)
(* call returns any key of the vocabulary, as the tests' fake_read_key     *)
(* does.  Indices are 0-based as in the source; opts[i] of the source is   *)
(* opts[i + 1] here.                                                       *)
(***************************************************************************)
\* every key name read_key can return on either platform variant
NormalizedKeys ==
    {"up", "down", "left", "right", "enter", "esc", "space", "backspace",
     "eof", "other"}

\* option labels, in list order
Labels == <<"a", "b", "c", "d", "e", "f">>

\* the option lists a picker is given: the empty list and each prefix
OptionLists == {SubSeq(Labels, 1, n) : n \in 0..MaxOpts}

\* the default_index arguments tried: negative, in range, past the end
DefaultIndexes == (0 - 1)..MaxOpts

PyNone == [kind |-> "None"]
PyStr(v) == [kind |-> "str", value |-> v]
\* mutant: an empty selection is returned as None ("return chosen or None")
PyList_empty_is_none(v) ==
    IF v = <<>> THEN [kind |-> "None"] ELSE [kind |-> "list", value |-> v]

PyList(v) == [kind |-> "list", value |-> v]

Min(a, b) == IF a < b THEN a ELSE b
Max(a, b) == IF a > b THEN a ELSE b

\* sorted(picked): the indices in ascending order
RECURSIVE Sorted(_)
Sorted(S) ==
    IF S = {} THEN <<>>
    ELSE LET m == CHOOSE x \in S : \A y \in S : x <= y
         IN <<m>> \o Sorted(S \ {m})

\* mutant: the labels come out in descending index order
PickedLabels_descending(o, S) ==
    [k \in 1..Cardinality(S) |-> o[Sorted(S)[Cardinality(S) + 1 - k] + 1]]

\* [opts[i] for i in sorted(picked)]
PickedLabels(o, S) == [k \in 1..Cardinality(S) |-> o[Sorted(S)[k] + 1]]

\* mutant: only the upper end is clamped
ClampIndex_upper_only(d, n) == Min(d, n - 1)

\* max(0, min(default_index, len(opts) - 1))
ClampIndex(d, n) == Max(0, Min(d, n - 1))

\* mutant: the cursor stops at the first option instead of wrapping
CursorUp_stops_at_top(i, n) == Max(0, i - 1)

\* (selected_index - 1) % len(opts)
CursorUp(i, n) == (i - 1) % n

\* mutant: the cursor runs past the last option
CursorDown_no_wrap(i, n) == i + 1

\* (selected_index + 1) % len(opts)
CursorDown(i, n) == (i + 1) % n

\* mutant: space only ever adds the index
Toggle_add_only(S, i) == S \cup {i}

\* picked.remove(selected_index) if it is in picked, else picked.add(...)
Toggle(S, i) == IF i \in S THEN S \ {i} ELSE S \cup {i}

\* mutant: esc has no branch and is ignored like any other key
OneBranch_esc_ignored(k) ==
    IF k = "up" THEN "up"
    ELSE IF k = "down" THEN "down"
    ELSE IF k = "enter" THEN "enter"
    ELSE "ignored"

\* select_one: the branch of the if/elif chain a key takes
OneBranch(k) ==
    IF k = "up" THEN "up"
    ELSE IF k = "down" THEN "down"
    ELSE IF k = "enter" THEN "enter"
    ELSE IF k = "esc" THEN "esc"
    ELSE "ignored"

\* mutant: left moves the cursor like up
ManyBranch_left_is_up(k) ==
    IF k \in {"up", "left"} THEN "up"
    ELSE IF k = "down" THEN "down"
    ELSE IF k = "space" THEN "space"
    ELSE IF k = "enter" THEN "enter"
    ELSE IF k = "esc" THEN "esc"
    ELSE "ignored"

\* select_many: the branch of the if/elif chain a key takes
ManyBranch(k) ==
    IF k = "up" THEN "up"
    ELSE IF k = "down" THEN "down"
    ELSE IF k = "space" THEN "space"
    ELSE IF k = "enter" THEN "enter"
    ELSE IF k = "esc" THEN "esc"
    ELSE "ignored"

\* _build_panel: the row carrying the cursor and, for select_many, the marks
BuildPanel(cursor, marks) == [kind |-> "panel", cursor |-> cursor, marks |-> marks]

InitPick ==
    /\ seq = <<>>
    /\ result = "none"
    /\ KeyReaderIdle
    /\ PureIdle
    /\ ppc = "start"
    /\ picker \in {"one", "many"}
    /\ opts \in OptionLists
    /\ default_index \in (IF picker = "one" THEN DefaultIndexes ELSE {0})
    /\ selected_index = 0
    /\ picked = {}
    /\ ret = [kind |-> "pending"]
    /\ reads = 0
    /\ renders = 0
    /\ panel = [kind |-> "blank"]
    /\ moves = 0

\* if not opts: return None
RejectEmpty ==
    /\ ppc = "start"
    /\ opts = <<>>
    /\ ret' = PyNone
    /\ ppc' = "returned"
    /\ UNCHANGED <<picker, opts, default_index, selected_index, picked, reads,
                   renders, panel>>
    /\ UNCHANGED <<parseVars, pureVars, keyVars, moves>>

\* mutant: the empty list is not rejected before the display opens
StartOne_no_empty_check ==
    /\ ppc = "start"
    /\ picker = "one"
    /\ selected_index' = ClampIndex(default_index, Len(opts))
    /\ panel' = BuildPanel(selected_index', "none")
    /\ renders' = renders + 1
    /\ ppc' = "read_key"
    /\ UNCHANGED <<picker, opts, default_index, picked, ret, reads>>
    /\ UNCHANGED <<parseVars, pureVars, keyVars, moves>>

\* select_one: clamp default_index, open the Live display on the first panel
StartOne ==
    /\ ppc = "start"
    /\ picker = "one"
    /\ opts # <<>>
    /\ selected_index' = ClampIndex(default_index, Len(opts))
    /\ panel' = BuildPanel(selected_index', "none")
    /\ renders' = renders + 1
    /\ ppc' = "read_key"
    /\ UNCHANGED <<picker, opts, default_index, picked, ret, reads>>
    /\ UNCHANGED <<parseVars, pureVars, keyVars, moves>>

\* select_many: cursor 0, nothing picked, open the Live display
StartMany ==
    /\ ppc = "start"
    /\ picker = "many"
    /\ opts # <<>>
    /\ selected_index' = 0
    /\ picked' = {}
    /\ panel' = BuildPanel(0, {})
    /\ renders' = renders + 1
    /\ ppc' = "read_key"
    /\ UNCHANGED <<picker, opts, default_index, ret, reads>>
    /\ UNCHANGED <<parseVars, pureVars, keyVars, moves>>

\* key = read_key()
ReadKey(k) ==
    /\ ppc = "read_key"
    /\ reads < MaxKeys
    /\ key' = k
    /\ reads' = reads + 1
    /\ moves' = moves + (IF k = "down" THEN 1 ELSE IF k = "up" THEN 0 - 1 ELSE 0)
    /\ ppc' = "dispatch"
    /\ UNCHANGED <<picker, opts, default_index, selected_index, picked, ret,
                   renders, panel>>
    /\ UNCHANGED <<parseVars, pureVars, readerVars>>

\* live.update(_build_panel(...)) at the end of a loop iteration
Rerender(cursor, marks) ==
    /\ panel' = BuildPanel(cursor, marks)
    /\ renders' = renders + 1
    /\ ppc' = "read_key"

\* select_one: one pass through the if/elif chain on key, then live.update
SelectOneKey ==
    /\ ppc = "dispatch"
    /\ picker = "one"
    /\ IF OneBranch(key) = "up"
       THEN /\ selected_index' = CursorUp(selected_index, Len(opts))
            /\ Rerender(selected_index', "none")
            /\ UNCHANGED ret
       ELSE IF OneBranch(key) = "down"
       THEN /\ selected_index' = CursorDown(selected_index, Len(opts))
            /\ Rerender(selected_index', "none")
            /\ UNCHANGED ret
       ELSE IF OneBranch(key) = "enter"
       THEN /\ ret' = PyStr(opts[selected_index + 1])
            /\ ppc' = "returned"
            /\ UNCHANGED <<selected_index, panel, renders>>
       ELSE IF OneBranch(key) = "esc"
       THEN /\ ret' = PyNone
            /\ ppc' = "returned"
            /\ UNCHANGED <<selected_index, panel, renders>>
       ELSE /\ Rerender(selected_index, "none")
            /\ UNCHANGED <<selected_index, ret>>
    /\ UNCHANGED <<picker, opts, default_index, picked, reads>>
    /\ UNCHANGED <<parseVars, pureVars, keyVars, moves>>

\* select_many: one pass through the if/elif chain on key, then live.update
SelectManyKey ==
    /\ ppc = "dispatch"
    /\ picker = "many"
    /\ IF ManyBranch(key) = "up"
       THEN /\ selected_index' = CursorUp(selected_index, Len(opts))
            /\ Rerender(selected_index', picked)
            /\ UNCHANGED <<picked, ret>>
       ELSE IF ManyBranch(key) = "down"
       THEN /\ selected_index' = CursorDown(selected_index, Len(opts))
            /\ Rerender(selected_index', picked)
            /\ UNCHANGED <<picked, ret>>
       ELSE IF ManyBranch(key) = "space"
       THEN /\ picked' = Toggle(picked, selected_index)
            /\ Rerender(selected_index, picked')
            /\ UNCHANGED <<selected_index, ret>>
       ELSE IF ManyBranch(key) = "enter"
       THEN /\ ret' = PyList(PickedLabels(opts, picked))
            /\ ppc' = "returned"
            /\ UNCHANGED <<selected_index, picked, panel, renders>>
       ELSE IF ManyBranch(key) = "esc"
       THEN /\ ret' = PyNone
            /\ ppc' = "returned"
            /\ UNCHANGED <<selected_index, picked, panel, renders>>
       ELSE /\ Rerender(selected_index, picked)
            /\ UNCHANGED <<selected_index, picked, ret>>
    /\ UNCHANGED <<picker, opts, default_index, reads>>
    /\ UNCHANGED <<parseVars, pureVars, keyVars, moves>>

NextPick ==
    \/ RejectEmpty
    \/ StartOne
    \/ StartMany
    \/ \E k \in NormalizedKeys : ReadKey(k)
    \/ SelectOneKey
    \/ SelectManyKey

SpecPick == InitPick /\ [][NextPick]_vars

(***************************************************************************)
(* A picker on top of read_key: every key the picker handles comes from a  *)
(* read_key call that runs statement by statement against the terminal,    *)
(* and bytes may arrive while the picker dispatches and renders.  After    *)
(* the picker has returned, later callers go on calling read_key.          *)
(***************************************************************************)
\* the bytes the terminal delivers to a picker
TuiBytes == {ESC, "[", "A", CR}

\* the option list the picker is given
TuiOptions == SubSeq(Labels, 1, 2)

\* neither picker catches anything around read_key(): the exception leaves
\* the loop and the picker
PickerAfterRaise(e) == "raised"

InitTui ==
    /\ seq = <<>>
    /\ result = "none"
    /\ termMode \in InitialModes
    /\ origMode = termMode
    /\ isatty \in BOOLEAN
    /\ StreamIdle
    /\ CallIdle
    /\ PureIdle
    /\ ppc = "start"
    /\ picker \in {"one", "many"}
    /\ opts = TuiOptions
    /\ default_index = 0
    /\ selected_index = 0
    /\ picked = {}
    /\ ret = [kind |-> "pending"]
    /\ reads = 0
    /\ renders = 0
    /\ panel = [kind |-> "blank"]
    /\ moves = 0

\* key = read_key(): the picker enters read_key
TuiCall ==
    /\ ppc = "read_key"
    /\ reads < MaxKeys
    /\ EnterReadKey
    /\ ppc' = "in_read_key"
    /\ reads' = reads + 1
    /\ UNCHANGED <<picker, opts, default_index, selected_index, picked, ret,
                   renders, panel, moves>>

\* key = read_key(): read_key has returned, the picker has the key
TuiReturn ==
    /\ ppc = "in_read_key"
    /\ rkpc = "done"
    /\ exc = "none"
    /\ ppc' = "dispatch"
    /\ moves' = moves + (IF key = "down" THEN 1
                         ELSE IF key = "up" THEN 0 - 1 ELSE 0)
    /\ UNCHANGED <<picker, opts, default_index, selected_index, picked, ret,
                   reads, renders, panel>>
    /\ UNCHANGED <<parseVars, pureVars, keyVars>>

\* key = read_key(): read_key has raised
TuiRaise ==
    /\ ppc = "in_read_key"
    /\ rkpc = "done"
    /\ exc # "none"
    /\ ppc' = PickerAfterRaise(exc)
    /\ ret' = (IF PickerAfterRaise(exc) = "raised"
               THEN [kind |-> "raised", value |-> exc] ELSE ret)
    /\ UNCHANGED <<picker, opts, default_index, selected_index, picked, reads,
                   renders, panel, moves>>
    /\ UNCHANGED <<parseVars, pureVars, keyVars>>

\* a later caller calls read_key() after the picker has returned
LaterCall ==
    /\ ppc = "returned"
    /\ Call

NextTui ==
    \/ \E c \in TuiBytes : Arrive(c)
    \/ Hangup
    \/ StartOne
    \/ StartMany
    \/ TuiCall
    \/ TuiReturn
    \/ TuiRaise
    \/ SelectOneKey
    \/ SelectManyKey
    \/ LaterCall
    \/ TcGetAttr
    \/ TcGetAttrFails
    \/ SetRaw
    \/ ReadCh1
    \/ ReadFails
    \/ SelectFirst
    \/ ReadAfterEscape
    \/ SelectNextReady
    \/ SelectNextTimeout
    \/ DrainCapReached
    \/ InterruptBeforeTry
    \/ InterruptInBody
    \/ Restore

SpecTui == InitTui /\ [][NextTui]_vars

(***************************************************************************)
(* ytaudio_secrets.py, ytaudio_tonie.py : credentials and cloud upload     *)
(*                                                                         *)
(* world is what the functions read from outside their arguments: the      *)
(* environment variables (None when unset), platform.system(), whether     *)
(* the keyring and tonie-api packages can be imported, the two keyring     *)
(* entries, whether the audio file exists and the Creative Tonies of the   *)
(* account.  A str is PyStr of its characters, None is PyNone.  A function *)
(* that can raise yields Returned(value) or Raised(exception).             *)
(***************************************************************************)
\* bool(v) for v a str or None
Truthy(v) == v.kind = "str" /\ v.value # <<>>

\* a or b, for a a str or None
PyOr(a, b) == IF Truthy(a) THEN a ELSE b

\* s or None, for s the characters of a str
OrNone(s) == IF s = <<>> THEN PyNone ELSE PyStr(s)

RECURSIVE StripLeft(_, _)
\* str.lstrip(c)
StripLeft(s, c) ==
    IF s # <<>> /\ Head(s) = c THEN StripLeft(Tail(s), c) ELSE s

RECURSIVE StripRight(_, _)
\* str.rstrip(c)
StripRight(s, c) ==
    IF s # <<>> /\ s[Len(s)] = c
    THEN StripRight(SubSeq(s, 1, Len(s) - 1), c) ELSE s

\* str.strip(c)
StripChar(s, c) == StripRight(StripLeft(s, c), c)

\* str.strip(): whitespace off both ends
Strip(s) == StripChar(s, SPC)

\* str.lower(), on the letters and host names used here
Lower(s) ==
    [i \in 1..Len(s) |-> IF s[i] = "R" THEN "r"
                         ELSE IF s[i] = "B" THEN "b"
                         ELSE IF s[i] = "YOUTU.BE" THEN "youtu.be"
                         ELSE s[i]]

Returned(v) == [kind |-> "return", value |-> v]
Raised(e) == [kind |-> "raise", value |-> e]

\* the outcome of an upload call: what it returned or raised, and the ids of
\* the Creative Tonies it uploaded to, in order
Pushed(kind, v, ids) == [kind |-> kind, value |-> v, uploaded |-> ids]

TonieCredentials(u, p) ==
    [kind |-> "TonieCredentials", username |-> u, password |-> p]

\* os.getenv(name, "").strip()
getenv(w, name) ==
    Strip(IF w.env[name].kind = "None" THEN <<>> ELSE w.env[name].value)

\* the pair from TONIE_USERNAME and TONIE_PASSWORD, or None
get_tonie_credentials_from_env(w) ==
    LET username == getenv(w, "TONIE_USERNAME")
        password == getenv(w, "TONIE_PASSWORD")
    IN IF username = <<>> \/ password = <<>> THEN PyNone
       ELSE TonieCredentials(username, password)

\* platform.system().lower() in {"darwin", "windows"}
is_supported_os(w) == w.platform \in {"Darwin", "Windows"}

\* import keyring
import_keyring(w) ==
    IF w.keyring_installed THEN Returned("keyring")
    ELSE Raised("ModuleNotFoundError")

get_tonie_credentials_from_keyring(w) ==
    IF ~is_supported_os(w) THEN Returned(PyNone)
    ELSE IF import_keyring(w).kind = "raise" THEN import_keyring(w)
    ELSE LET username == w.keyring.tonie_username
             password == w.keyring.tonie_password
         IN IF ~Truthy(username) \/ ~Truthy(password) THEN Returned(PyNone)
            ELSE Returned(TonieCredentials(username.value, password.value))

\* get_tonie_credentials_from_env() or get_tonie_credentials_from_keyring()
get_tonie_credentials(w) ==
    IF get_tonie_credentials_from_env(w).kind # "None"
    THEN Returned(get_tonie_credentials_from_env(w))
    ELSE get_tonie_credentials_from_keyring(w)

resolve_tonie_credentials(a, w) ==
    IF Truthy(a.username) /\ Truthy(a.password)
    THEN Returned(TonieCredentials(Strip(a.username.value),
                                   Strip(a.password.value)))
    ELSE get_tonie_credentials(w)

load_tonie_config_from_env(w) ==
    LET username == getenv(w, "TONIE_USERNAME")
        password == getenv(w, "TONIE_PASSWORD")
    IN IF username = <<>> \/ password = <<>> THEN PyNone
       ELSE [kind |-> "TonieConfig",
             username |-> username,
             password |-> password,
             creative_tonie_id |-> OrNone(getenv(w, "TONIE_CREATIVE_TONIE_ID")),
             creative_tonie_name |->
                 OrNone(getenv(w, "TONIE_CREATIVE_TONIE_NAME"))]

\* from tonie_api.api import TonieAPI
import_tonie_api(w) ==
    IF w.tonie_api_installed THEN Returned("TonieAPI")
    ELSE Raised("ModuleNotFoundError")

\* next((ct for ct in creative_tonies if <test>), None), the matches given
\* by their positions
FirstMatch(tonies, positions) ==
    IF positions = {} THEN PyNone
    ELSE tonies[CHOOSE i \in positions : \A j \in positions : i <= j]

\* maybe_push_to_tonie: the Creative Tonie selected from effective_id and
\* effective_name, or the ValueError for an id or a name that matches none
SelectTonie(a, w) ==
    LET cfg == load_tonie_config_from_env(w)
        tonies == w.creative_tonies
        effective_id ==
            PyOr(a.creative_tonie_id,
                 IF cfg.kind # "None" THEN cfg.creative_tonie_id ELSE PyNone)
        effective_name ==
            PyOr(a.creative_tonie_name,
                 IF cfg.kind # "None" THEN cfg.creative_tonie_name ELSE PyNone)
        by_id == FirstMatch(tonies,
                     {i \in DOMAIN tonies : tonies[i].id = effective_id.value})
        by_name == FirstMatch(tonies,
                     {i \in DOMAIN tonies :
                          Lower(Strip(tonies[i].name))
                              = Lower(Strip(effective_name.value))})
    IN IF Truthy(effective_id)
       THEN (IF by_id.kind = "None" THEN Raised("ValueError")
             ELSE Returned(by_id))
       ELSE IF Truthy(effective_name)
       THEN (IF by_name.kind = "None" THEN Raised("ValueError")
             ELSE Returned(by_name))
       ELSE Returned(tonies[1])

maybe_push_to_tonie(a, w) ==
    LET creds == resolve_tonie_credentials(a, w)
    IN IF creds.kind = "raise" THEN Pushed("raise", creds.value, <<>>)
       ELSE IF creds.value.kind = "None" THEN Pushed("return", FALSE, <<>>)
       ELSE IF ~w.mp3_exists THEN Pushed("raise", "FileNotFoundError", <<>>)
       ELSE IF import_tonie_api(w).kind = "raise"
       THEN Pushed("raise", import_tonie_api(w).value, <<>>)
       ELSE IF w.creative_tonies = <<>>
       THEN Pushed("raise", "ValueError", <<>>)
       ELSE IF SelectTonie(a, w).kind = "raise"
       THEN Pushed("raise", SelectTonie(a, w).value, <<>>)
       ELSE Pushed("return", TRUE, <<SelectTonie(a, w).value.id>>)

\* the keyword arguments maybe_push_to_tonies passes on for one target
OneTarget(a, tid) ==
    [fn |-> "maybe_push_to_tonie",
     creative_tonie_id |-> tid,
     creative_tonie_name |-> PyNone,
     username |-> a.username,
     password |-> a.password]

RECURSIVE PushEach(_, _, _, _, _)
\* for tid in creative_tonie_ids: ... count += 1; an exception leaves the
\* loop with the uploads made so far done
PushEach(ids, a, w, count, done) ==
    IF ids = <<>> THEN Pushed("return", count, done)
    ELSE LET attempted == maybe_push_to_tonie(OneTarget(a, PyStr(Head(ids))), w)
         IN IF attempted.kind = "raise"
            THEN Pushed("raise", attempted.value, done)
            ELSE PushEach(Tail(ids), a, w,
                          count + (IF attempted.value THEN 1 ELSE 0),
                          done \o attempted.uploaded)

maybe_push_to_tonies(a, w) ==
    IF a.creative_tonie_ids.kind = "None" \/ a.creative_tonie_ids.value = <<>>
    THEN LET attempted == maybe_push_to_tonie(OneTarget(a, PyNone), w)
         IN IF attempted.kind = "raise" THEN attempted
            ELSE Pushed("return", IF attempted.value THEN 1 ELSE 0,
                        attempted.uploaded)
    ELSE PushEach(a.creative_tonie_ids.value, a, w, 0, <<>>)

\* the world of one call
World(eu, ep, ei, en, plat, kri, ku, kp, api, mp3, tonies) ==
    [env |-> [TONIE_USERNAME |-> eu, TONIE_PASSWORD |-> ep,
              TONIE_CREATIVE_TONIE_ID |-> ei,
              TONIE_CREATIVE_TONIE_NAME |-> en],
     platform |-> plat,
     keyring_installed |-> kri,
     keyring |-> [tonie_username |-> ku, tonie_password |-> kp],
     tonie_api_installed |-> api,
     mp3_exists |-> mp3,
     creative_tonies |-> tonies]

\* the Creative Tonies of the account
RedTonie == [kind |-> "CreativeTonie", id |-> <<"1">>, name |-> <<"R">>]
BlueTonie ==
    [kind |-> "CreativeTonie", id |-> <<"2">>, name |-> <<"B", SPC>>]
Accounts == {<<>>, <<RedTonie>>, <<RedTonie, BlueTonie>>}

\* platform.system() on macOS, Windows and Linux
Platforms == {"Darwin", "Windows", "Linux"}

\* username and password arguments: absent, empty, padded, plain
ExplicitUsernames ==
    {PyNone, PyStr(<<>>), PyStr(<<"x">>), PyStr(<<SPC, "x", SPC>>)}
ExplicitPasswords ==
    {PyNone, PyStr(<<>>), PyStr(<<"X">>), PyStr(<<SPC>>)}

\* TONIE_USERNAME and TONIE_PASSWORD: unset, blank, set
EnvUsernames == {PyNone, PyStr(<<SPC>>), PyStr(<<"e", SPC>>)}
EnvPasswords == {PyNone, PyStr(<<SPC>>), PyStr(<<"E">>)}

\* keyring.get_password(...): no entry, an empty one, a value
KeyringUsernames == {PyNone, PyStr(<<>>), PyStr(<<"k">>)}
KeyringPasswords == {PyNone, PyStr(<<>>), PyStr(<<"K">>)}

CredArgs ==
    {[fn |-> "resolve_tonie_credentials", username |-> u, password |-> p] :
        u \in ExplicitUsernames, p \in ExplicitPasswords}

CredWorlds ==
    {World(eu, ep, PyNone, PyNone, plat, kri, ku, kp, TRUE, TRUE, <<>>) :
        eu \in EnvUsernames, ep \in EnvPasswords, plat \in Platforms,
        kri \in BOOLEAN, ku \in KeyringUsernames, kp \in KeyringPasswords}

\* everything but the function call at rest
NoTerminal ==
    /\ seq = <<>>
    /\ result = "none"
    /\ KeyReaderIdle
    /\ PickerIdle

InitCreds ==
    /\ NoTerminal
    /\ args \in CredArgs
    /\ world \in CredWorlds
    /\ outcome = [kind |-> "pending"]

\* one call of resolve_tonie_credentials(username=..., password=...)
ResolveCredentials ==
    /\ outcome.kind = "pending"
    /\ outcome' = resolve_tonie_credentials(args, world)
    /\ UNCHANGED <<args, world, parseVars, keyVars, pickVars>>

NextCreds == ResolveCredentials

SpecCreds == InitCreds /\ [][NextCreds]_vars

\* credentials given to an upload call: none, or a pair
PairOrNone(u, p) == {<<PyNone, PyNone>>, <<PyStr(u), PyStr(p)>>}

\* creative_tonie_ids: None, empty, one id, two ids, an unknown id first
TargetLists ==
    {PyNone, PyList(<<>>), PyList(<<(<<"1">>)>>),
     PyList(<<(<<"1">>), (<<"2">>)>>), PyList(<<(<<"9">>), (<<"1">>)>>)}

\* creative_tonie_id and creative_tonie_name arguments
TargetIds == {PyNone, PyStr(<<"1">>), PyStr(<<"9">>)}
TargetNames == {PyNone, PyStr(<<"r">>)}

\* TONIE_CREATIVE_TONIE_ID and TONIE_CREATIVE_TONIE_NAME
EnvTargetIds == {PyNone, PyStr(<<"2">>), PyStr(<<"9">>)}
EnvTargetNames == {PyNone, PyStr(<<SPC, "b">>)}

PushArgs ==
    {[fn |-> "maybe_push_to_tonies", creative_tonie_ids |-> ids,
      username |-> c[1], password |-> c[2]] :
        ids \in TargetLists, c \in PairOrNone(<<"x">>, <<"X">>)}
    \cup
    {[fn |-> "maybe_push_to_tonie", creative_tonie_id |-> ti[1],
      creative_tonie_name |-> ti[2], username |-> c[1], password |-> c[2]] :
        ti \in TargetIds \X TargetNames, c \in PairOrNone(<<"x">>, <<"X">>)}

PushWorlds ==
    {World(e[1], e[2], t[1], t[2], p[1], p[2], k[1], k[2], d[1], d[2], acct) :
        e \in PairOrNone(<<"e">>, <<"E">>),
        t \in EnvTargetIds \X EnvTargetNames,
        p \in {"Darwin", "Linux"} \X BOOLEAN,
        k \in PairOrNone(<<"k">>, <<"K">>),
        d \in BOOLEAN \X BOOLEAN,
        acct \in Accounts}

InitPush ==
    /\ NoTerminal
    /\ args \in PushArgs
    /\ world \in PushWorlds
    /\ outcome = [kind |-> "pending"]

\* one call of maybe_push_to_tonies(audio_path, creative_tonie_ids=..., ...)
PushToTonies ==
    /\ outcome.kind = "pending"
    /\ args.fn = "maybe_push_to_tonies"
    /\ outcome' = maybe_push_to_tonies(args, world)
    /\ UNCHANGED <<args, world, parseVars, keyVars, pickVars>>

\* one call of maybe_push_to_tonie(mp3_path, creative_tonie_id=..., ...)
PushToTonie ==
    /\ outcome.kind = "pending"
    /\ args.fn = "maybe_push_to_tonie"
    /\ outcome' = maybe_push_to_tonie(args, world)
    /\ UNCHANGED <<args, world, parseVars, keyVars, pickVars>>

NextPush ==
    \/ PushToTonies
    \/ PushToTonie

SpecPush == InitPush /\ [][NextPush]_vars

(***************************************************************************)
(* ytaudio_youtube.py : normalize_youtube_url                              *)
(*                                                                         *)
(* A URL is a sequence of tokens: the scheme with its slashes, host        *)
(* labels, path segments, parameter names and values and the separators    *)
(* between them.  Every input is put together from parts, and the function *)
(* sees only the joined string, which it takes apart again as urlparse and *)
(* parse_qs do.                                                            *)
(***************************************************************************)
\* how many query parameters an input URL carries at most
MaxParams == 2

\* the position of the first token of s that is in set, Len(s) + 1 if none
IndexOf(s, set) ==
    IF \E i \in 1..Len(s) : s[i] \in set
    THEN CHOOSE i \in 1..Len(s) :
             s[i] \in set /\ \A j \in 1..(i - 1) : s[j] \notin set
    ELSE Len(s) + 1

\* s[:i-1] and s[i+1:], the two sides of position i
Before(s, i) == SubSeq(s, 1, i - 1)
After(s, i) == SubSeq(s, i + 1, Len(s))

\* the tokens of s as a set
Range(s) == {s[i] : i \in 1..Len(s)}

RECURSIVE SplitOn(_, _)
\* str.split(sep)
SplitOn(s, sep) ==
    IF IndexOf(s, {sep}) > Len(s) THEN <<s>>
    ELSE <<Before(s, IndexOf(s, {sep}))>>
             \o SplitOn(After(s, IndexOf(s, {sep})), sep)

\* unquote(value.replace("+", " ")), on the tokens used here
Decode(s) == [i \in 1..Len(s) |-> IF s[i] = "+" THEN SPC ELSE s[i]]

\* urlparse(raw): netloc only after a scheme and "//", up to the first of
\* "/", "?" and "#"; then the fragment is cut at "#" and the query at "?";
\* an unclosed "[" in netloc raises ValueError
urlparse(raw) ==
    LET has_netloc == raw # <<>> /\ raw[1] = "https://"
        rest0 == IF has_netloc THEN Tail(raw) ELSE raw
        n == IF has_netloc THEN IndexOf(rest0, {"/", "?", "#"}) ELSE 1
        netloc == Before(rest0, n)
        rest1 == SubSeq(rest0, n, Len(rest0))
        rest2 == Before(rest1, IndexOf(rest1, {"#"}))
    IN IF "[" \in Range(netloc) /\ "]" \notin Range(netloc)
       THEN Raised("ValueError")
       ELSE Returned([netloc |-> netloc,
                      path |-> Before(rest2, IndexOf(rest2, {"?"})),
                      query |-> After(rest2, IndexOf(rest2, {"?"})),
                      fragment |-> After(rest1, IndexOf(rest1, {"#"}))])

RECURSIVE KeptPairs(_)
\* parse_qsl over the pieces between "&": a piece without "=" or with a
\* blank value is dropped, the others give (name, decoded value)
KeptPairs(pieces) ==
    IF pieces = <<>> THEN <<>>
    ELSE LET nv == Head(pieces)
             eq == IndexOf(nv, {"="})
         IN (IF eq > Len(nv) \/ After(nv, eq) = <<>> THEN <<>>
             ELSE <<[name |-> Decode(Before(nv, eq)),
                     value |-> Decode(After(nv, eq))]>>)
            \o KeptPairs(Tail(pieces))

\* mutant: the values of a name come out last first
parse_qs_last_first(query, name) ==
    LET kept == SelectSeq(KeptPairs(SplitOn(query, "&")),
                          LAMBDA nv : nv.name = name)
    IN [i \in 1..Len(kept) |-> kept[Len(kept) + 1 - i].value]

\* parse_qs(query).get(name): the values of that name in order, <<>> for None
parse_qs(query, name) ==
    LET kept == SelectSeq(KeptPairs(SplitOn(query, "&")),
                          LAMBDA nv : nv.name = name)
    IN [i \in 1..Len(kept) |-> kept[i].value]

\* f"https://www.youtube.com/watch?v={video_id}"
WatchUrl(video_id) ==
    <<"https://", "www.", "youtube.com", "/", "watch", "?", "v", "=">>
        \o video_id

\* the body of the try block, given the parsed URL
NormalizeParsed(raw, parsed) ==
    LET host == Lower(parsed.netloc)
        candidate == StripChar(parsed.path, "/")
        short_id == IF "youtu.be" \in Range(host) /\ candidate # <<>>
                    THEN PyStr(candidate) ELSE PyNone
        v_values == parse_qs(parsed.query, <<"v">>)
        video_id == IF short_id.kind = "None"
                       /\ "youtube.com" \in Range(host) /\ v_values # <<>>
                    THEN PyStr(v_values[1]) ELSE short_id
    IN IF ~Truthy(video_id) THEN raw
       ELSE IF Strip(video_id.value) = <<>> THEN raw
       ELSE WatchUrl(Strip(video_id.value))

normalize_youtube_url(url) ==
    LET raw == Strip(url)
    IN IF raw = <<>> THEN Returned(raw)
       ELSE IF urlparse(raw).kind = "raise" THEN Returned(raw)
       ELSE Returned(NormalizeParsed(raw, urlparse(raw).value))

\* the parts an input is put together from
Pads == {<<>>, <<SPC>>}
Schemes == {<<>>, <<"https://">>}
Hosts ==
    {<<>>, <<"youtu.be">>, <<"YOUTU.BE">>, <<"www.", "youtube.com">>,
     <<"m.", "youtube.com">>, <<"example.org">>, <<"[", "youtube.com">>}
Paths ==
    {<<>>, <<"/">>, <<"/", "a">>, <<"/", "/", "a", "/">>,
     <<"/", "a", "/", "b">>, <<"/", "watch">>}
Params ==
    {<<"v", "=", "a">>, <<"v", "=", "b">>, <<"v", "=">>, <<"v">>,
     <<"v", "=", "+">>, <<"v", "=", "+", "a", "+">>, <<"list", "=", "b">>}
Fragments == {<<>>, <<"#", "v", "=", "a">>}

\* the parameter lists of an input: none (no "?"), or up to MaxParams
ParamLists == UNION {[1..n -> Params] : n \in 0..MaxParams}

RECURSIVE JoinParams(_)
\* "&".join(params)
JoinParams(ps) ==
    IF ps = <<>> THEN <<>>
    ELSE IF Len(ps) = 1 THEN ps[1]
    ELSE ps[1] \o <<"&">> \o JoinParams(Tail(ps))

\* the string the parts make
UrlOf(p) ==
    p.pad \o p.scheme \o p.host \o p.path
        \o (IF p.params = <<>> THEN <<>> ELSE <<"?">> \o JoinParams(p.params))
        \o p.fragment \o p.pad

UrlParts ==
    [pad : Pads, scheme : Schemes, host : Hosts, path : Paths,
     params : ParamLists, fragment : Fragments]

InitUrl ==
    /\ NoTerminal
    /\ \E p \in UrlParts :
           args = [fn |-> "normalize_youtube_url", url |-> UrlOf(p),
                   parts |-> p]
    /\ world = "none"
    /\ outcome = [kind |-> "pending"]

\* one call of normalize_youtube_url(url)
NormalizeUrl ==
    /\ outcome.kind = "pending"
    /\ outcome' = normalize_youtube_url(args.url)
    /\ UNCHANGED <<args, world, parseVars, keyVars, pickVars>>

NextUrl == NormalizeUrl

SpecUrl == InitUrl /\ [][NextUrl]_vars

(***************************************************************************)
(* Claims about the escape classifier (checked under SpecParse)            *)
(***************************************************************************)
Introducers == {"[", "O"}
DirectionLetters == {"A", "B", "C", "D"}

\* the fixed table of the specification: A Up, B Down, C Right, D Left
TableDirection(ch) ==
    CASE ch = "A" -> "up"
      [] ch = "B" -> "down"
      [] ch = "C" -> "right"
      [] ch = "D" -> "left"

\* a recognized arrow sequence: an introducer first, a direction letter last
IsArrowSequence(s) ==
    /\ Len(s) >= 2
    /\ s[1] \in Introducers
    /\ s[Len(s)] \in DirectionLetters

Classified == result # "none"

Thm_C4_TwoCharArrows ==
    (Classified /\ Len(seq) = 2 /\ IsArrowSequence(seq)) =>
        result = TableDirection(seq[2])

Wit_C4_ApplicationLeft == seq = <<"O", "D">> /\ result = "left"

Thm_C7_Total ==
    Classified => result \in {"up", "down", "left", "right", "esc", "other"}

Wit_C7_AtCap == Len(seq) = max_bytes /\ Classified /\ result = "up"

(***************************************************************************)
(* Claims about read_key on the raw-stream variant (checked under Spec)    *)
(***************************************************************************)
\* the call entered the try block of _raw_mode_unix and has left read_key
AcquiredAndLeft == rkpc = "done" /\ old_settings # "none"

\* C8: a read_key call that acquires raw mode restores the attributes in
\* force before it exactly once on every exit path: a returned key, an error
\* raised by a read, an interrupt during a read or during tty.setraw.
Thm_C8_RestoredOnEveryExit ==
    /\ restores <= 1
    /\ AcquiredAndLeft => (termMode = modeBefore /\ restores = 1)

Wit_C8_InterruptedSettingRaw ==
    /\ AcquiredAndLeft
    /\ exc = "KeyboardInterrupt"
    /\ excAt = "setraw"
    /\ modeBefore = "cbreak"
    /\ termMode = "cbreak"

\* the mapping of the first character as the specification states it
ClaimedKey(c, follow) ==
    CASE c = "" -> "eof"
      [] c \in {CR, LF} -> "enter"
      [] c = SPC -> "space"
      [] c = DEL -> "backspace"
      [] c = ESC -> parse_ansi_escape_sequence(follow)
      [] OTHER -> "other"

ReturnedFromEscape == rkpc = "done" /\ exc = "none" /\ ch1 = ESC

\* C10: after the escape byte, when no byte is available within the first
\* wait read_key returns esc and has taken nothing but the escape byte; when
\* one is available it is buffered, draining stops only at a gap or at the
\* cap, and the key is the classifier's result on the buffered bytes.
Cex_C10_Disambiguation ==
    ReturnedFromEscape =>
        /\ ~availFirst => (key = "esc" /\ buf = <<>>)
        /\ availFirst => buf # <<>>
        /\ ~availAtStop
        /\ key = parse_ansi_escape_sequence(buf)

\* C11: in one read_key call at most max_bytes bytes are read after the
\* escape byte, and the drain loop ends at the cap even when the terminal
\* keeps bytes waiting all the time: at the cap no further read is made.
Thm_C11_DrainBounded ==
    /\ appends <= max_bytes
    /\ Len(buf) <= max_bytes
    /\ rkpc \in {"read_first", "read_next"} => appends < max_bytes
    /\ (rkpc = "select_next" /\ appends = max_bytes) => ENABLED DrainCapReached

Wit_C11_CapReachedUnderFlood ==
    /\ rkpc = "done" /\ ch1 = ESC /\ Len(buf) = max_bytes
    /\ appends = max_bytes /\ Len(fdq) = MaxBacklog

(***************************************************************************)
(* Claims about the pickers (checked under SpecPick)                       *)
(***************************************************************************)
\* C1: in both pickers a key "eof" received while the picker is active ends
\* the picker, which returns None, exactly as "esc" does.
Cex_C1_EofCancels ==
    [][(ppc = "dispatch" /\ key = "eof") => (ppc' = "returned" /\ ret' = PyNone)]_vars

\* the picker has a non-empty list and has opened its display
PickerRunning == opts # <<>> /\ ppc \in {"read_key", "dispatch", "returned"}

\* default_index clamped into 0..N-1, as the specification states it
Clamped(d, n) == IF d < 0 THEN 0 ELSE IF d >= n THEN n - 1 ELSE d

\* the 0-based position of a label in opts
PositionOf(label) == CHOOSE i \in 0..(Len(opts) - 1) : opts[i + 1] = label

\* C12: with an empty option list either picker returns None at once: no
\* read_key call, no panel rendered, nothing raised.
Thm_C12_EmptyListRejected ==
    opts = <<>> =>
        /\ ppc \in {"start", "returned"}
        /\ reads = 0
        /\ renders = 0
        /\ ppc = "returned" => ret = PyNone

Wit_C12_EmptyReturnedNone ==
    opts = <<>> /\ picker = "many" /\ ppc = "returned" /\ ret = PyNone

\* C13: select_one starts with the cursor at max(0, min(default_index, N-1)),
\* so an immediate Enter returns options[0] for a negative default and
\* options[N-1] for a default >= N.
Thm_C13_DefaultClamped ==
    (picker = "one" /\ PickerRunning) =>
        /\ reads = 0 => selected_index = Clamped(default_index, Len(opts))
        /\ (reads = 1 /\ key = "enter" /\ ppc = "returned") =>
               ret = PyStr(opts[Clamped(default_index, Len(opts)) + 1])

Wit_C13_NegativeDefaultEnter ==
    /\ picker = "one" /\ Len(opts) = 3 /\ default_index = 0 - 1
    /\ reads = 1 /\ key = "enter" /\ ppc = "returned" /\ ret = PyStr("a")

\* C14: in both pickers the cursor is always a valid index into the options
\* and the chosen set holds valid indices only.
Thm_C14_IndicesValid ==
    PickerRunning =>
        /\ selected_index \in 0..(Len(opts) - 1)
        /\ picked \subseteq 0..(Len(opts) - 1)

Wit_C14_LastIndexChosen ==
    /\ picker = "many" /\ Len(opts) = 3 /\ ppc = "read_key"
    /\ selected_index = 2 /\ picked = {0, 2} /\ reads = 3

\* C15: in both pickers Up moves the cursor from i to (i-1) mod N and Down to
\* (i+1) mod N: Up from 0 gives N-1, Down from N-1 gives 0, and with N = 1
\* the cursor stays at 0.
Thm_C15_CursorWraps ==
    [][/\ (ppc = "dispatch" /\ key = "up") =>
              selected_index' = (IF selected_index = 0 THEN Len(opts) - 1
                                 ELSE selected_index - 1)
       /\ (ppc = "dispatch" /\ key = "down") =>
              selected_index' = (IF selected_index = Len(opts) - 1 THEN 0
                                 ELSE selected_index + 1)]_vars

Wit_C15_UpFromFirst ==
    /\ picker = "one" /\ Len(opts) = 3 /\ default_index = 0
    /\ reads = 1 /\ key = "up" /\ ppc = "read_key" /\ selected_index = 2

\* C16: select_one returns, on Enter, the option at the cursor: with clamped
\* default d, k Down keys and j Up keys read (and any ignored keys) the
\* result is options[(d + k - j) mod N].
Thm_C16_EnterReturnsCursorOption ==
    (picker = "one" /\ ppc = "returned" /\ key = "enter") =>
        ret = PyStr(opts[((Clamped(default_index, Len(opts)) + moves) % Len(opts)) + 1])

Wit_C16_DownDownEnter ==
    /\ picker = "one" /\ opts = <<"a", "b", "c">> /\ default_index = 0
    /\ reads = 3 /\ moves = 2 /\ key = "enter" /\ ret = PyStr("c")

\* C17: in select_one an esc key ends the picker with None whatever the
\* cursor and the keys before it, and no key is read once it has returned.
Thm_C17_EscapeCancels ==
    [][/\ (picker = "one" /\ ppc = "dispatch" /\ key = "esc") =>
              (ppc' = "returned" /\ ret' = PyNone /\ reads' = reads)
       /\ (picker = "one" /\ ppc = "returned") =>
              (ppc' = "returned" /\ reads' = reads /\ ret' = ret)]_vars

Wit_C17_EscapeAfterMoves ==
    /\ picker = "one" /\ Len(opts) = 3 /\ ppc = "returned" /\ key = "esc"
    /\ ret = PyNone /\ selected_index = 2 /\ reads = 3 /\ moves = 2

\* C18: in select_many a space key toggles the cursor's index in the chosen
\* set, leaves every other index as it was and leaves the cursor in place.
Thm_C18_SpaceToggles ==
    [][(picker = "many" /\ ppc = "dispatch" /\ key = "space") =>
           /\ selected_index' = selected_index
           /\ (selected_index \in picked') <=> (selected_index \notin picked)
           /\ \A i \in 0..MaxOpts :
                  i # selected_index => ((i \in picked') <=> (i \in picked))]_vars

\* a second space at the same index has emptied the chosen set again
Wit_C18_ToggledTwice ==
    /\ picker = "many" /\ ppc = "read_key" /\ key = "space"
    /\ reads = 2 /\ moves = 0 /\ picked = {}
    /\ panel = BuildPanel(0, {}) /\ renders = 3

\* C19: select_many returns, on Enter, exactly the options whose indices are
\* chosen, once each, in ascending index order.
Thm_C19_SelectionInIndexOrder ==
    (picker = "many" /\ ppc = "returned" /\ key = "enter") =>
        /\ ret.kind = "list"
        /\ Len(ret.value) = Cardinality(picked)
        /\ {PositionOf(ret.value[k]) : k \in 1..Len(ret.value)} = picked
        /\ \A k \in 1..(Len(ret.value) - 1) :
               PositionOf(ret.value[k]) < PositionOf(ret.value[k + 1])

Wit_C19_FirstAndThird ==
    /\ picker = "many" /\ opts = <<"a", "b", "c">> /\ ppc = "returned"
    /\ key = "enter" /\ reads = 5 /\ picked = {0, 2}
    /\ ret = PyList(<<"a", "c">>)

\* C20: in select_many Enter with nothing chosen returns an empty selection,
\* which is not None, while esc returns None even with indices chosen.
Thm_C20_ConfirmedEmptyVersusCancelled ==
    (picker = "many" /\ ppc = "returned") =>
        /\ (key = "enter" /\ picked = {}) =>
               (ret = [kind |-> "list", value |-> <<>>] /\ ret # PyNone)
        /\ key = "esc" => ret = PyNone

Wit_C20_EscapeWithChosen ==
    /\ picker = "many" /\ ppc = "returned" /\ key = "esc"
    /\ picked = {1} /\ ret = PyNone

\* the keys neither picker has a branch for, and space in select_one
IgnoredKey ==
    \/ key \in {"other", "left", "right", "backspace"}
    \/ picker = "one" /\ key = "space"

\* C21: in both pickers an Other, Left, Right or Backspace key (and Space in
\* select_one) leaves the cursor and the chosen set as they were, the picker
\* goes back to reading keys with nothing returned, and the list is rendered
\* once more from the unchanged cursor and chosen set.
Thm_C21_IgnoredKeyChangesNothing ==
    [][(ppc = "dispatch" /\ IgnoredKey)
         => /\ selected_index' = selected_index
            /\ picked' = picked
            /\ ppc' = "read_key"
            /\ ret' = ret
            /\ renders' = renders + 1
            /\ panel' = BuildPanel(selected_index,
                                   IF picker = "one" THEN "none" ELSE picked)]_vars

Wit_C21_OtherAfterToggle ==
    /\ picker = "many"
    /\ ppc = "read_key"
    /\ key = "left"
    /\ reads = 3
    /\ renders = 4
    /\ selected_index = 1
    /\ picked = {1}
    /\ panel = BuildPanel(1, {1})


\* no read_key call is between its first and its last statement
NoCallInProgress == rkpc \in {"idle", "done"}

\* the statements of read_key that run with raw mode set
RawStatements ==
    {"read1", "select_first", "read_first", "select_next", "read_next"}

\* C25: raw mode is acquired and released once per read_key call and never
\* held across calls: whenever no call is in progress (before the first
\* call, while the picker dispatches and renders, after it has returned or
\* raised) the terminal has the attributes it had before any call; inside a
\* call raw mode is set while the body reads, and the saved attributes are
\* put back once, never twice.
Thm_C25_RawModeScopedToCall ==
    /\ NoCallInProgress => termMode = origMode
    /\ rkpc \in RawStatements => (termMode = "raw" /\ restores = 0)
    /\ restores <= 1
    /\ (rkpc = "done" /\ old_settings # "none") => restores = 1

Wit_C25_SecondKeyDispatched ==
    /\ ppc = "dispatch"
    /\ reads = 2
    /\ renders = 2
    /\ key = "enter"
    /\ restores = 1
    /\ origMode = "cbreak"
    /\ termMode = "cbreak"

\* the stream is closed and nothing is left to read: select reports stdin
\* readable and sys.stdin.read(1) returns ""
ClosedAndDrained == hup /\ pybuf = <<>> /\ fdq = <<>>

\* C26: when, after the escape byte, stdin is reported readable but read
\* returns no data, the bytes collected so far are the whole sequence: no
\* later step of the call changes them, the call returns the classifier's
\* result on exactly those bytes ("esc" when no follow-on byte had arrived),
\* and it makes at most max_bytes read attempts; reads that come back empty
\* happen only on a closed stream.
Thm_C26_EmptyReadEndsSequence ==
    [][/\ (rkpc \in {"read_first", "read_next", "select_next"}
            /\ ClosedAndDrained) => buf' = buf
       /\ (rkpc' \in {"finally", "done"} /\ exc' = "none" /\ ch1' = ESC)
             => /\ key' = parse_ansi_escape_sequence(buf')
                /\ appends' <= max_bytes
                /\ appends' > Len(buf') => hup'
                /\ ~availFirst' => key' = "esc"]_vars

Wit_C26_ClosedAfterBracket ==
    /\ rkpc = "done"
    /\ exc = "none"
    /\ ch1 = ESC
    /\ hup
    /\ buf = <<"[">>
    /\ appends = max_bytes
    /\ key = "other"

\* read_key cannot get the terminal attributes: stdin is no terminal, or the
\* terminal has hung up
CannotAcquire == rkpc = "tcgetattr" /\ (~isatty \/ hup)

\* C27: when reading the terminal attributes fails, read_key raises and
\* returns no key at all (not "eof", not "other"), the terminal attributes
\* are what they were, nothing was saved or restored, and a picker that made
\* the call leaves its loop with that exception: it reads, dispatches and
\* renders nothing more.
Thm_C27_AcquisitionFailurePropagates ==
    [][/\ (rkpc = "tcgetattr" /\ ~isatty /\ rkpc' # rkpc
            /\ exc' # "KeyboardInterrupt") => exc' = "termios.error"
       /\ (exc = "none" /\ exc' = "termios.error")
             => /\ CannotAcquire
                /\ rkpc' = "done"
                /\ key' = "none"
                /\ termMode' = termMode
                /\ termMode' = origMode
                /\ old_settings' = "none"
                /\ restores' = 0
       /\ (ppc = "in_read_key" /\ exc = "termios.error" /\ ppc' # ppc)
             => (ppc' = "raised"
                 /\ ret' = [kind |-> "raised", value |-> "termios.error"])
       /\ ppc = "raised"
             => (ppc' = "raised" /\ rkpc' = rkpc /\ reads' = reads
                 /\ renders' = renders /\ ret' = ret)]_vars

Wit_C27_PickerRaisedWithoutTerminal ==
    /\ ~isatty
    /\ ppc = "raised"
    /\ ret = [kind |-> "raised", value |-> "termios.error"]
    /\ key = "none"
    /\ reads = 1
    /\ renders = 1
    /\ termMode = origMode

\* the key the console variant is to return for a prefix followed by code
WinClaimedKey(code) ==
    CASE code = "H" -> "up"
      [] code = "P" -> "down"
      [] code = "K" -> "left"
      [] code = "M" -> "right"
      [] OTHER -> "other"

\* C28: on the console variant a prefix character (\x00 or \xe0) followed
\* by code H, P, K or M gives up, down, left or right and any other code
\* gives other, the call having consumed exactly those two characters; the
\* escape character gives esc at once, with one character consumed and no
\* second read; each getwch takes one waiting character, and every key
\* returned is one of the normalized keys.
Thm_C28_ConsoleVariant ==
    [][/\ Len(fdq') < Len(fdq)
             => /\ fdq' = Tail(fdq)
                /\ \/ rkpc = "getwch" /\ ch1' = Head(fdq) /\ buf' = <<>>
                   \/ rkpc = "getwch_code" /\ buf' = <<Head(fdq)>>
                                           /\ ch1' = ch1
       /\ (rkpc = "getwch" /\ rkpc' # rkpc /\ Head(fdq) = ESC)
             => (rkpc' = "done" /\ key' = "esc")
       /\ rkpc' = "done"
             => /\ key' \in NormalizedKeys
                /\ ch1' \in WinPrefixes
                      => (Len(buf') = 1 /\ key' = WinClaimedKey(buf'[1]))
                /\ ch1' \notin WinPrefixes => buf' = <<>>
                /\ ch1' = ESC => key' = "esc"]_vars

Wit_C28_LeftThenEscapeWaiting ==
    /\ rkpc = "done"
    /\ ch1 = "\\xe0"
    /\ buf = <<"K">>
    /\ key = "left"
    /\ fdq = <<ESC>>

\* the first wait of this call is ending with nothing to read: the escape
\* byte was read and no follow-on byte has arrived in time
FirstWaitTimesOut ==
    rkpc = "select_first" /\ ~SelectReady /\ pybuf = <<>>

\* what holds of a split arrow sequence whether or not late bytes survive:
\* the call whose first wait times out returns esc; a picker that gets esc
\* returns None, and the read_key call after such an escape is never the
\* picker's, which has returned by then; a late "[" or direction letter that a later call reads
\* comes back as other; a direction is returned only by a call that itself
\* read the escape byte and then a whole arrow sequence.
SplitSequenceStep ==
    /\ (FirstWaitTimesOut /\ rkpc' # rkpc /\ exc' = "none")
          => (key' = "esc" /\ buf' = <<>> /\ rkpc' = "finally")
    /\ (ppc = "dispatch" /\ key = "esc" /\ ppc' # ppc)
          => (ppc' = "returned" /\ ret' = PyNone)
    /\ afterTimeout' => ppc' = "returned"
    /\ (afterTimeout' /\ rkpc' = "done" /\ exc' = "none"
         /\ ch1' \in {"[", "A"}) => key' = "other"
    /\ key' \in Directions => (ch1' = ESC /\ IsArrowSequence(buf'))

\* C29 as stated: when the follow-on bytes of an arrow sequence arrive only
\* after the first wait has timed out, that call returns esc, the picker
\* that received it has cancelled, no direction key comes out of the split
\* sequence, and the late bytes are not discarded: the bytes waiting when
\* the next call switches to raw mode are still there for it to read.
Cex_C29_LateBytesKept ==
    [][/\ SplitSequenceStep
       /\ (afterTimeout /\ rkpc = "setraw" /\ rkpc' = "read1")
             => fdq' = fdq]_vars

\* C29, amended: as above, except that a late byte is returned as its own
\* key only if it arrives after the next call has set raw mode; tty.setraw
\* discards the late bytes already waiting at that point, and nothing else
\* removes a waiting byte without reading it.
Thm_C29_LateBytesFlushedOrOther ==
    [][/\ SplitSequenceStep
       /\ (afterTimeout /\ rkpc = "setraw" /\ rkpc' = "read1")
             => fdq' = <<>>
       /\ (Len(fdq') < Len(fdq) /\ rkpc # "setraw")
             => (rkpc \in {"read1", "read_first", "read_next"}
                 /\ pybuf = <<>> /\ pybuf' = Tail(fdq) /\ fdq' = <<>>)]_vars

Wit_C29_LateBracketReadAsOther ==
    /\ afterTimeout
    /\ ppc = "returned"
    /\ ret = PyNone
    /\ reads = 1
    /\ typed = 3
    /\ rkpc = "done"
    /\ exc = "none"
    /\ ch1 = "["
    /\ key = "other"
    /\ pybuf = <<"A">>

\* the OS secure store can be read and holds both entries
StoreHasPair(w) ==
    /\ is_supported_os(w)
    /\ w.keyring_installed
    /\ Truthy(w.keyring.tonie_username)
    /\ Truthy(w.keyring.tonie_password)

\* the credentials the priority order explicit > environment > secure store
\* names, None when no source has a pair; explicit and environment values
\* are taken without the whitespace at their ends
ClaimedCredentials(a, w) ==
    IF Truthy(a.username) /\ Truthy(a.password)
    THEN TonieCredentials(Strip(a.username.value), Strip(a.password.value))
    ELSE IF getenv(w, "TONIE_USERNAME") # <<>>
            /\ getenv(w, "TONIE_PASSWORD") # <<>>
    THEN TonieCredentials(getenv(w, "TONIE_USERNAME"),
                          getenv(w, "TONIE_PASSWORD"))
    ELSE IF StoreHasPair(w)
    THEN TonieCredentials(w.keyring.tonie_username.value,
                          w.keyring.tonie_password.value)
    ELSE PyNone

\* C22: resolve_tonie_credentials returns the explicit pair when both are
\* given, whatever the environment and the secure store hold; otherwise the
\* environment pair when TONIE_USERNAME and TONIE_PASSWORD are both
\* non-empty; otherwise the secure-store pair when both entries exist;
\* otherwise None.
Cex_C22_CredentialPriority ==
    outcome.kind # "pending"
        => outcome = Returned(ClaimedCredentials(args, world))

\* C23: maybe_push_to_tonies returns 0, uploading nothing and raising
\* nothing, when no credentials can be resolved and also when the tonie-api
\* package cannot be imported, for every list of target ids, the empty list
\* and None included.
Cex_C23_ZeroWhenUnavailable ==
    (/\ args.fn = "maybe_push_to_tonies"
     /\ outcome.kind # "pending"
     /\ \/ ClaimedCredentials(args, world).kind = "None"
        \/ ~world.tonie_api_installed)
        => (outcome.kind = "return" /\ outcome.value = 0
            /\ outcome.uploaded = <<>>)

\* the Creative Tonie the documented order selects: the creative_tonie_id
\* argument, else the creative_tonie_name argument, else
\* TONIE_CREATIVE_TONIE_ID, else TONIE_CREATIVE_TONIE_NAME, else the first
\* one of the account; None when the id or name in force matches none
ClaimedTarget(a, w) ==
    LET tonies == w.creative_tonies
        ById(v) == FirstMatch(tonies,
                       {i \in DOMAIN tonies : tonies[i].id = v})
        ByName(v) == FirstMatch(tonies,
                         {i \in DOMAIN tonies :
                              Lower(Strip(tonies[i].name)) = Lower(Strip(v))})
    IN IF Truthy(a.creative_tonie_id) THEN ById(a.creative_tonie_id.value)
       ELSE IF Truthy(a.creative_tonie_name)
       THEN ByName(a.creative_tonie_name.value)
       ELSE IF getenv(w, "TONIE_CREATIVE_TONIE_ID") # <<>>
       THEN ById(getenv(w, "TONIE_CREATIVE_TONIE_ID"))
       ELSE IF getenv(w, "TONIE_CREATIVE_TONIE_NAME") # <<>>
       THEN ByName(getenv(w, "TONIE_CREATIVE_TONIE_NAME"))
       ELSE tonies[1]

\* C30: maybe_push_to_tonie uploads to the target the documented order
\* selects, explicit arguments before the environment variables before the
\* first Creative Tonie, whichever source the credentials came from: an
\* upload goes to that target, and the call fails to find a target only
\* when that order finds none.
Cex_C30_TargetOrder ==
    (args.fn = "maybe_push_to_tonie" /\ world.creative_tonies # <<>>)
        => /\ (outcome.kind = "return" /\ outcome.value = TRUE)
                 => /\ ClaimedTarget(args, world).kind # "None"
                    /\ outcome.uploaded = <<ClaimedTarget(args, world).id>>
           /\ (outcome.kind = "raise" /\ outcome.value = "ValueError")
                 => ClaimedTarget(args, world).kind = "None"

\* the video id the parts of an input carry, <<>> when they carry none: for
\* a URL with scheme and a youtu.be host, the path without the slashes at
\* its ends; otherwise, for one with a youtube.com host, the first
\* non-empty value of a v parameter, without the whitespace at its ends
IdOfParts(p) ==
    LET is_url == p.scheme # <<>> /\ "[" \notin Range(p.host)
        short == is_url /\ Range(p.host) \cap {"youtu.be", "YOUTU.BE"} # {}
        long == is_url /\ "youtube.com" \in Range(p.host)
        vs == SelectSeq(p.params,
                        LAMBDA q : Len(q) > 2 /\ q[1] = "v" /\ q[2] = "=")
    IN IF short /\ StripChar(p.path, "/") # <<>>
       THEN StripChar(p.path, "/")
       ELSE IF long /\ vs # <<>>
       THEN Strip(Decode(SubSeq(vs[1], 3, Len(vs[1]))))
       ELSE <<>>

====
